---------------------------- MODULE Spec2Model ----------------------------
(***************************************************************************)
(* A model of depreciated/biosys5.1.py: the sample registry, the import of *)
(* abundance (OTU) tables, the control classifier, the plate topology, the *)
(* Baroni-Urbani-Buser similarity pass and the per-region exports.         *)
(*                                                                         *)
(* Python strings whose characters matter (folder, sampleid, region,       *)
(* column headers, file names) are sequences of one-character strings.     *)
(* A Python exception that no handler catches ends the run: the model      *)
(* records its class in `error` and moves to pc = "crashed".               *)
(***************************************************************************)
EXTENDS Integers, Sequences, FiniteSets, TLC

VARIABLES
    pc,           \* position of the run
    error,        \* class of the uncaught exception, or "none"
    sample_list,  \* the registry: a sequence of Diatom_Sample records
    otus,         \* the abundance table being imported (import_otu_tables_main)
    files_done,   \* names of the abundance files imported so far
    region_list,  \* main: what get_region_list returned
    region_idx,   \* main: number of regions already handed to filter_otus_by_region
    sheets,       \* output.xlsx / otus_all.xlsx: the sheets written, in order
    diag,         \* diagnostics printed by the exports
    sample,       \* control classifier: the sample under classification
    calls,        \* control classifier: number of sort_control calls made on it
    changes,      \* control classifier: number of those calls that changed a field
    df,           \* similarity: the joined two-sample table given to the coefficient
    bub,          \* similarity: baroni_urbani_buser_coefficient(df)
    bub_swapped,  \* similarity: the coefficient of df with its two columns swapped
    sim_all,      \* perform_similarity_checks: coefficients computed so far
    plates,       \* the extraction sheets read by import_extraction_sheets
    row,          \* plate topology: the row given to get_surrounding_coords
    col,          \* plate topology: the column given to get_surrounding_coords
    sur_coords,   \* plate topology: what get_surrounding_coords returned
    raw,          \* identifiers: the raw folder, sampleid and siteid given to __init__
    ident,        \* identifiers: what __init__ made of them
    ident_again   \* identifiers: what __init__ makes of ident

vars == <<pc, error, sample_list, otus, files_done, region_list, region_idx,
          sheets, diag, sample, calls, changes, df, bub, bub_swapped,
          sim_all, plates, row, col, sur_coords, raw, ident, ident_again>>

mainVars == <<sample_list, otus, files_done, region_list, region_idx, sheets, diag>>
ctlVars  == <<sample, calls, changes>>
bubVars  == <<df, bub, bub_swapped>>
simVars  == <<sim_all, plates>>
coordVars == <<row, col, sur_coords>>
normVars == <<raw, ident, ident_again>>

--------------------------------------------------------------------------
(* Bounds of the model. *)

MaxLen == 3        \* longest folder string given to the control classifier
MaxCalls == 2      \* sort_control calls made on one sample
MaxFiles == 2      \* abundance files in the input directory
MaxRows == 3       \* rows of a joined two-sample table
MaxCount == 2      \* largest abundance in a joined two-sample table

--------------------------------------------------------------------------
(* Python strings. *)

LowerCase == <<"a","b","c","d","e","f","g","h","i","j","k","l","m",
               "n","o","p","q","r","s","t","u","v","w","x","y","z">>
UpperCase == <<"A","B","C","D","E","F","G","H","I","J","K","L","M",
               "N","O","P","Q","R","S","T","U","V","W","X","Y","Z">>
Digits == {"0","1","2","3","4","5","6","7","8","9"}

upper_char(c) ==
    IF \E i \in 1..26 : LowerCase[i] = c
    THEN UpperCase[CHOOSE i \in 1..26 : LowerCase[i] = c] ELSE c

lower_char(c) ==
    IF \E i \in 1..26 : UpperCase[i] = c
    THEN LowerCase[CHOOSE i \in 1..26 : UpperCase[i] = c] ELSE c

upper(s) == [i \in 1..Len(s) |-> upper_char(s[i])]
lower(s) == [i \in 1..Len(s) |-> lower_char(s[i])]

\* s.rfind(c): the 0-based index of the last c in s, -1 when there is none
rfind(s, c) ==
    IF \E i \in 1..Len(s) : s[i] = c
    THEN (CHOOSE i \in 1..Len(s) : s[i] = c /\ \A j \in (i+1)..Len(s) : s[j] # c) - 1
    ELSE -1

\* s.find(c), 0-based
find(s, c) ==
    IF \E i \in 1..Len(s) : s[i] = c
    THEN (CHOOSE i \in 1..Len(s) : s[i] = c /\ \A j \in 1..(i-1) : s[j] # c) - 1
    ELSE -1

\* s.strip(): the blanks at both ends go
RECURSIVE strip(_)
strip(s) ==
    IF s # <<>> /\ Head(s) = " " THEN strip(Tail(s))
    ELSE IF s # <<>> /\ s[Len(s)] = " " THEN strip(SubSeq(s, 1, Len(s) - 1))
    ELSE s

\* the digits of an int literal: what follows the sign of the stripped text
int_digits(s) ==
    LET t == strip(s)
    IN IF t # <<>> /\ t[1] \in {"+", "-"} THEN Tail(t) ELSE t

\* int(s) succeeds: over the characters the model draws from (letters, digits,
\* ".", " ", "+", "-", "_" only after a letter) that is when s, stripped and
\* without its sign, is a non-empty run of digits
int_ok(s) == Len(int_digits(s)) > 0 /\ \A i \in 1..Len(int_digits(s)) : int_digits(s)[i] \in Digits

\* the leading zeros of a run of digits go, one digit stays
RECURSIVE drop_zeros(_)
drop_zeros(s) == IF Len(s) > 1 /\ s[1] = "0" THEN drop_zeros(Tail(s)) ELSE s

\* str(int(s)) when int(s) succeeds: canonical decimal, "-" kept unless zero
str_int(s) ==
    LET z == drop_zeros(int_digits(s))
    IN IF strip(s)[1] = "-" /\ z # <<"0">> THEN <<"-">> \o z ELSE z

Str_Control  == <<"C","o","n","t","r","o","l">>
Str_Blanks   == <<"B","l","a","n","k","s">>
Str_NTCs     == <<"N","T","C","s">>
Str_Positives == <<"P","o","s","i","t","i","v","e","s">>
Str_Gblocks  == <<"G","b","l","o","c","k","s">>
Str_TR       == <<"T","R">>
Str_Unknowns == <<"U","n","k","n","o","w","n","s">>
no_value     == <<"n","o","_","v","a","l","u","e">>

control_regions == <<Str_Blanks, Str_Positives, Str_Gblocks, Str_NTCs, Str_Unknowns, Str_TR>>

--------------------------------------------------------------------------
(* Abundance tables.  A DataFrame slice owned by a sample has the PrefTaxon *)
(* column and one count column: its name, the taxa and the counts by row.  *)

NoneTab == [isdf |-> FALSE, colname |-> <<>>, taxa |-> <<>>, vals |-> <<>>]

mk_tab(colname, taxa, vals) ==
    [isdf |-> TRUE, colname |-> colname, taxa |-> taxa, vals |-> vals]

RECURSIVE seq_sum(_)
seq_sum(s) == IF s = <<>> THEN 0 ELSE Head(s) + seq_sum(Tail(s))

Run_1_tsv == <<"R","u","n","_","1",".","t","s","v">>
Run_2_tsv == <<"R","u","n","_","2",".","t","s","v">>
Extra_tsv == <<"e","x","t","r","a",".","t","s","v">>
FileNames == <<Run_1_tsv, Run_2_tsv, Extra_tsv>>

\* batch_num_dict, its first two runs
batch_num_dict(b) ==
    IF b = <<"R","u","n","_","1">> THEN "25-01-19"
    ELSE IF b = <<"R","u","n","_","2">> THEN "15-01-19"
    ELSE "KeyError"

--------------------------------------------------------------------------
(* Diatom_Sample. *)

NoPlate == "no_attribute"   \* the attribute was never assigned

\* the number 0 as a similarity (see the coefficient below)
Float_0 == [err |-> FALSE, n |-> 0, r |-> 0, m |-> 1]

\* no coefficient computed yet
NotComputed == [err |-> FALSE, n |-> 0 - 1, r |-> 0, m |-> 0]

\* s.replace(".", "")
remove_dots(s) == SelectSeq(s, LAMBDA ch : ch # ".")

RECURSIVE split_acc(_, _, _)
split_acc(s, cur, out) ==
    IF s = <<>> THEN (IF cur = <<>> THEN out ELSE Append(out, cur))
    ELSE IF Head(s) = " "
         THEN split_acc(Tail(s), <<>>, IF cur = <<>> THEN out ELSE Append(out, cur))
         ELSE split_acc(Tail(s), Append(cur, Head(s)), out)

\* s.split(): the words of s
split_ws(s) == split_acc(s, <<>>, <<>>)

RECURSIVE capital_words(_)
capital_words(ws) ==
    IF ws = <<>> THEN <<>>
    ELSE <<upper_char(Head(ws)[1])>> \o lower(Tail(Head(ws))) \o <<" ">>
         \o capital_words(Tail(ws))

\* get_capital: every word capitalised, joined by one blank, stripped
get_capital(s) ==
    LET r == capital_words(split_ws(s))
    IN IF r = <<>> THEN <<>> ELSE SubSeq(r, 1, Len(r) - 1)

\* Diatom_Sample.__init__ on string arguments, <<>> for an absent (None or
\* empty) one: the sample built and the exception raised
Diatom_Sample(sampleid, siteid, region, folder) ==
    LET f == IF Len(folder) > 0
             THEN (IF int_ok(folder) THEN str_int(folder) ELSE folder)
             ELSE no_value
        sid == IF Len(sampleid) > 0
               THEN (IF int_ok(remove_dots(sampleid))
                     THEN str_int(remove_dots(sampleid)) ELSE sampleid)
               ELSE <<"F">> \o f
        site_ok == Len(siteid) = 0 \/ int_ok(remove_dots(siteid))
        site == IF Len(siteid) = 0 THEN no_value
                ELSE IF site_ok THEN str_int(remove_dots(siteid)) ELSE <<>>
        reg == IF Len(region) > 0
               THEN (IF region = <<"n","a","n">> THEN no_value ELSE get_capital(region))
               ELSE no_value
    IN [s |-> [folder |-> f,
               sampleid |-> sid,
               siteid |-> site,
               region |-> reg,
               batch_num |-> no_value,
               count |-> 0,
               pass_fail |-> "Unsuccessful",
               analysis_date |-> "no_value",
               otu_tab |-> NoneTab,
               sim |-> Float_0,
               sim_sample |-> no_value,
               note |-> <<>>,
               plate_loc |-> no_value,
               plate |-> NoPlate,
               sur_samples |-> <<>>],
        exc |-> IF site_ok THEN "none" ELSE "ValueError"]

\* Diatom_Sample(None, None, None, region, None, None, None, None, folder)
new_sample(region, folder) == Diatom_Sample(<<>>, <<>>, region, folder).s

\* str(batch_num).split(".")[0]
split_dot_0(s) == IF find(s, ".") = -1 THEN s ELSE SubSeq(s, 1, find(s, "."))

assign_results(s, tab, batch_num) ==
    LET cnt == IF tab.colname = s.folder THEN seq_sum(tab.vals) ELSE 0
        b   == split_dot_0(batch_num)
        date == IF batch_num_dict(b) = "KeyError"
                THEN "Run metadata has not been set" ELSE batch_num_dict(b)
    IN [s EXCEPT !.otu_tab = tab,
                 !.count = cnt,
                 !.pass_fail = IF cnt >= 3000 THEN "Successful" ELSE @,
                 !.batch_num = IF Len(batch_num) > 0 THEN b ELSE no_value,
                 !.analysis_date = IF Len(batch_num) > 0 THEN date ELSE "no_value"]

\* the mutant of sort_control that classifies whatever the region is
sort_control_unguarded(s) ==
    LET s_loc == rfind(s.folder, "S")
        f1 == IF s_loc = -1 THEN s.folder ELSE SubSeq(s.folder, 1, s_loc)
        s1 == [s EXCEPT !.folder = f1, !.sampleid = f1 \o <<"_">> \o s.batch_num]
    IN IF Len(f1) = 0 THEN [s |-> s1, exc |-> "IndexError"]
       ELSE LET ch == lower(f1)[1]
                reg == IF ch = "b" THEN Str_Blanks
                       ELSE IF ch = "n" THEN Str_NTCs
                       ELSE IF ch = "p" THEN Str_Positives
                       ELSE IF ch = "g" THEN Str_Gblocks
                       ELSE IF ch = "t" THEN Str_TR
                       ELSE Str_Unknowns
            IN [s |-> [s1 EXCEPT !.region = reg,
                                 !.sampleid = IF reg = Str_Unknowns THEN <<"F">> \o f1 ELSE @,
                                 !.folder = upper(f1)],
                exc |-> "none"]

\* Diatom_Sample.sort_control: the sample afterwards and the exception raised
sort_control(s) ==
    IF s.region = Str_Control
    THEN LET s_loc == rfind(s.folder, "S")
             f1 == IF s_loc = -1 THEN s.folder ELSE SubSeq(s.folder, 1, s_loc)
             s1 == [s EXCEPT !.folder = f1, !.sampleid = f1 \o <<"_">> \o s.batch_num]
         IN IF Len(f1) = 0
            THEN [s |-> s1, exc |-> "IndexError"]   \* self.folder.lower()[0] on ""
            ELSE LET ch == lower(f1)[1]
                     reg == IF ch = "b" THEN Str_Blanks
                            ELSE IF ch = "n" THEN Str_NTCs
                            ELSE IF ch = "p" THEN Str_Positives
                            ELSE IF ch = "g" THEN Str_Gblocks
                            ELSE IF ch = "t" THEN Str_TR
                            ELSE Str_Unknowns
                 IN [s |-> [s1 EXCEPT !.region = reg,
                                      !.sampleid = IF reg = Str_Unknowns
                                                   THEN <<"F">> \o f1 ELSE @,
                                      !.folder = upper(f1)],
                     exc |-> "none"]
    ELSE [s |-> s, exc |-> "none"]

--------------------------------------------------------------------------
(* The control classifier on its own: a sample synthesised from an         *)
(* unmatched column header (import_otu_tables_main, lines 595-598) and the *)
(* sort_control calls made on it.                                          *)

FolderChars == {"B", "n", "P", "g", "t", "S", "s", "x", "7", "0"}

RECURSIVE StringsUpTo(_)
StringsUpTo(n) ==
    IF n = 0 THEN {<<>>}
    ELSE LET shorter == StringsUpTo(n - 1)
         IN shorter \cup {Append(s, c) : s \in {t \in shorter : Len(t) = n - 1}, c \in FolderChars}

Headers == StringsUpTo(MaxLen) \ {<<>>}

\* no identifier given, none made
NoIdent == [folder |-> <<>>, sampleid |-> <<>>, siteid |-> <<>>]

IdleMain == /\ sample_list = <<>> /\ otus = NoneTab /\ files_done = <<>>
            /\ region_list = <<>> /\ region_idx = 0 /\ sheets = <<>> /\ diag = <<>>
IdleCtl == sample = new_sample(<<>>, <<>>) /\ calls = 0 /\ changes = 0
IdleBub == df = <<>> /\ bub = NotComputed /\ bub_swapped = NotComputed
IdleSim == sim_all = <<>> /\ plates = <<>>
IdleCoord == row = 0 /\ col = 1 /\ sur_coords = <<>>
IdleNorm == raw = NoIdent /\ ident = NoIdent /\ ident_again = NoIdent

CtlInit ==
    /\ pc = "control"
    /\ error = "none"
    /\ \E header \in Headers, f \in 1..2 :
          sample = assign_results(new_sample(Str_Control, header),
                                  mk_tab(header, <<"EC", "IE">>, <<3000, 1>>),
                                  FileNames[f])
    /\ calls = 0
    /\ changes = 0
    /\ IdleMain /\ IdleBub /\ IdleSim /\ IdleCoord /\ IdleNorm

\* sample.sort_control()
SortControlCall ==
    /\ pc = "control"
    /\ calls < MaxCalls
    /\ LET r == sort_control(sample)
       IN /\ sample' = r.s
          /\ changes' = IF r.s # sample THEN changes + 1 ELSE changes
          /\ error' = r.exc
          /\ pc' = IF r.exc = "none" THEN "control" ELSE "crashed"
    /\ calls' = calls + 1
    /\ UNCHANGED <<mainVars, bubVars, simVars, coordVars, normVars>>

CtlNext == SortControlCall

SpecControl == CtlInit /\ [][CtlNext]_vars


\* the prefix of f before its last "S"; f itself when it holds none
StripRunSuffix(f) ==
    LET at == {i \in 1..Len(f) : f[i] = "S"}
    IN IF at = {} THEN f
       ELSE SubSeq(f, 1, (CHOOSE i \in at : \A j \in at : j <= i) - 1)

KnownControlTypes == {Str_Blanks, Str_NTCs, Str_Positives, Str_Gblocks, Str_TR}

\* the region the first character of a stripped folder stands for
ControlTypeOf(f) ==
    IF Len(f) = 0 THEN Str_Unknowns
    ELSE IF f[1] \in {"b", "B"} THEN Str_Blanks
    ELSE IF f[1] \in {"n", "N"} THEN Str_NTCs
    ELSE IF f[1] \in {"p", "P"} THEN Str_Positives
    ELSE IF f[1] \in {"g", "G"} THEN Str_Gblocks
    ELSE IF f[1] \in {"t", "T"} THEN Str_TR
    ELSE Str_Unknowns

\* C3: for every sample with region "Control" and every folder string,
\* sort_control completes, leaving folder = the prefix before the last "S"
\* upper-cased, region = the control type of the prefix's first character
\* (Unknowns for any other), and sample_id = <prefix>_<batch_num> for the five
\* known types, "F" + <prefix> for Unknowns.
C3_SortControlClassifiesEveryFolder ==
    [][(calls = 0 /\ calls' = 1 /\ sample.region = Str_Control) =>
          LET f == StripRunSuffix(sample.folder)
          IN /\ error' = "none"
             /\ sample'.folder = upper(f)
             /\ sample'.region = ControlTypeOf(f)
             /\ sample'.sampleid = IF ControlTypeOf(f) \in KnownControlTypes
                                   THEN f \o <<"_">> \o sample.batch_num
                                   ELSE <<"F">> \o f]_vars

\* C4: control classification is one-shot: sort_control changes a sample's
\* fields at most once, and a call on a sample whose region is no longer
\* "Control" leaves every field as it was.
C4_SortControlOneShot ==
    /\ [](changes <= 1)
    /\ [][(calls' = calls + 1 /\ sample.region # Str_Control) => sample' = sample]_vars

\* a second call was made on a classified sample whose folder still holds an "S"
C4_Witness ==
    /\ calls = 2 /\ changes = 1 /\ error = "none"
    /\ sample.region = Str_Blanks
    /\ \E i \in 1..Len(sample.folder) : sample.folder[i] = "S"

--------------------------------------------------------------------------
(* The Baroni-Urbani-Buser coefficient.  The joined table, PrefTaxon       *)
(* dropped, is a sequence of rows <<count_0, count_1>>.  The float the     *)
(* code returns, (sqrt(a*d) + a) / (sqrt(a*d) + a + b + c), is kept exact  *)
(* as the record [n |-> a, r |-> a*d, m |-> b + c]; err marks the          *)
(* ZeroDivisionError of a zero denominator.  For the table sizes of the    *)
(* model, distinct exact values are distinct floats.                       *)

binary(count) == IF count > 1 THEN 1 ELSE count

RECURSIVE abcd(_)
abcd(rows) ==
    IF rows = <<>> THEN [a |-> 0, b |-> 0, c |-> 0, d |-> 0]
    ELSE LET k == abcd(SubSeq(rows, 1, Len(rows) - 1))
             count_0 == binary(rows[Len(rows)][1])
             count_1 == binary(rows[Len(rows)][2])
         IN IF count_0 = count_1
            THEN (IF count_0 = 1 THEN [k EXCEPT !.a = @ + 1] ELSE [k EXCEPT !.d = @ + 1])
            ELSE IF count_0 > count_1 THEN [k EXCEPT !.b = @ + 1]
            ELSE IF count_0 < count_1 THEN [k EXCEPT !.c = @ + 1]
            ELSE k

RECURSIVE abcd_c_dropped(_)
abcd_c_dropped(rows) ==
    IF rows = <<>> THEN [a |-> 0, b |-> 0, c |-> 0, d |-> 0]
    ELSE LET k == abcd_c_dropped(SubSeq(rows, 1, Len(rows) - 1))
             count_0 == binary(rows[Len(rows)][1])
             count_1 == binary(rows[Len(rows)][2])
         IN IF count_0 = count_1
            THEN (IF count_0 = 1 THEN [k EXCEPT !.a = @ + 1] ELSE [k EXCEPT !.d = @ + 1])
            ELSE IF count_0 > count_1 THEN [k EXCEPT !.b = @ + 1]
            ELSE k

\* the coefficient as a value: the exception, or the exact quotient
coefficient(k) ==
    IF k.a + k.b + k.c = 0
    THEN [err |-> TRUE, n |-> 0, r |-> 0, m |-> 0]     \* float division by zero
    ELSE [err |-> FALSE, n |-> k.a, r |-> k.a * k.d, m |-> k.b + k.c]

\* the mutant that never counts a taxon present only in sample 1
bub_c_dropped(rows) == coefficient(abcd_c_dropped(rows))

baroni_urbani_buser_coefficient(rows) == coefficient(abcd(rows))

\* U + sqrt(P) > V + sqrt(Q), over the naturals
sqrt_sum_gt(U, P, V, Q) ==
    LET D == V - U
        E == P + Q - D * D
    IN IF P >= Q
       THEN D < 0 \/ (E > 0 /\ E * E > 4 * P * Q)
       ELSE D < 0 /\ (E < 0 \/ E * E < 4 * P * Q)

\* v > w for two coefficients: x/(x+m) > y/(y+k) iff x*k > y*m
float_gt(v, w) ==
    sqrt_sum_gt(v.n * w.m, v.r * w.m * w.m, w.n * v.m, w.r * v.m * v.m)

float_eq(v, w) ==
    IF v.err \/ w.err THEN v.err = w.err
    ELSE ~float_gt(v, w) /\ ~float_gt(w, v)

is_zero(v) == ~v.err /\ float_eq(v, Float_0)
is_one(v)  == ~v.err /\ float_eq(v, [err |-> FALSE, n |-> 1, r |-> 0, m |-> 0])

swap_columns(rows) == [i \in 1..Len(rows) |-> <<rows[i][2], rows[i][1]>>]

RECURSIVE TablesUpTo(_)
TablesUpTo(n) ==
    IF n = 0 THEN {<<>>}
    ELSE LET shorter == TablesUpTo(n - 1)
         IN shorter \cup {Append(t, <<x, y>>) :
                            t \in {u \in shorter : Len(u) = n - 1},
                            x \in 0..MaxCount, y \in 0..MaxCount}

BubInit ==
    /\ pc = "bub"
    /\ error = "none"
    /\ df \in TablesUpTo(MaxRows)
    /\ bub = NotComputed
    /\ bub_swapped = NotComputed
    /\ IdleMain /\ IdleCtl /\ IdleSim /\ IdleCoord /\ IdleNorm

\* similarity = baroni_urbani_buser_coefficient(df)
BubCompute ==
    /\ pc = "bub"
    /\ bub = NotComputed
    /\ bub' = baroni_urbani_buser_coefficient(df)
    /\ UNCHANGED <<pc, error, df, bub_swapped, mainVars, ctlVars, simVars, coordVars, normVars>>

\* the same call with the two sample columns exchanged
BubComputeSwapped ==
    /\ pc = "bub"
    /\ bub_swapped = NotComputed
    /\ bub_swapped' = baroni_urbani_buser_coefficient(swap_columns(df))
    /\ UNCHANGED <<pc, error, df, bub, mainVars, ctlVars, simVars, coordVars, normVars>>

BubNext == BubCompute \/ BubComputeSwapped

SpecBub == BubInit /\ [][BubNext]_vars

present(x) == x >= 1

DisjointPresence(rows) ==
    /\ \A i \in 1..Len(rows) : ~(present(rows[i][1]) /\ present(rows[i][2]))
    /\ \E i \in 1..Len(rows) : present(rows[i][1]) # present(rows[i][2])

IdenticalPresence(rows) ==
    /\ \A i \in 1..Len(rows) : present(rows[i][1]) = present(rows[i][2])
    /\ \E i \in 1..Len(rows) : present(rows[i][1]) /\ present(rows[i][2])

NothingPresent(rows) ==
    \A i \in 1..Len(rows) : ~present(rows[i][1]) /\ ~present(rows[i][2])

\* C6: the coefficient is 0 for disjoint presence, 1 for identical presence
\* with a taxon present, and the same with the two sample columns swapped.
C6_BubZeroOneSymmetric ==
    /\ (bub # NotComputed /\ DisjointPresence(df)) => is_zero(bub)
    /\ (bub # NotComputed /\ IdenticalPresence(df)) => is_one(bub)
    /\ (bub # NotComputed /\ bub_swapped # NotComputed) => float_eq(bub, bub_swapped)

\* both calls made on a table with a taxon in sample 0 only and one in both
C6_Witness ==
    /\ bub # NotComputed /\ bub_swapped # NotComputed
    /\ df = <<<<2, 0>>, <<1, 1>>, <<0, 0>>>>
    /\ ~bub.err /\ ~is_zero(bub) /\ ~is_one(bub)

\* C7: when the join is empty or every joined taxon is absent from both
\* samples (a = b = c = 0), the coefficient is 0, not a division by zero.
C7_BubDegenerateIsZero ==
    (bub # NotComputed /\ NothingPresent(df)) => is_zero(bub)

--------------------------------------------------------------------------
(* The plate topology. *)

get_surrounding_coords_row8(r, c) ==
    LET surround_rows == IF r = 0 THEN <<r, r + 1>>
                         ELSE IF r = 8 THEN <<r - 1, r>>
                         ELSE <<r - 1, r, r + 1>>
        surround_cols == IF c = 1 THEN <<c, c + 1>>
                         ELSE IF c = 12 THEN <<c - 1, c>>
                         ELSE <<c - 1, c, c + 1>>
        n == Len(surround_cols)
    IN [i \in 1..(Len(surround_rows) * n) |->
           <<surround_rows[((i - 1) \div n) + 1], surround_cols[((i - 1) % n) + 1]>>]

get_surrounding_coords(r, c) ==
    LET surround_rows == IF r = 0 THEN <<r, r + 1>>
                         ELSE IF r = 7 THEN <<r - 1, r>>
                         ELSE <<r - 1, r, r + 1>>
        surround_cols == IF c = 1 THEN <<c, c + 1>>
                         ELSE IF c = 12 THEN <<c - 1, c>>
                         ELSE <<c - 1, c, c + 1>>
        n == Len(surround_cols)
    IN [i \in 1..(Len(surround_rows) * n) |->
           <<surround_rows[((i - 1) \div n) + 1], surround_cols[((i - 1) % n) + 1]>>]

PlateRows == 0..7
PlateCols == 1..12

CoordInit ==
    /\ pc = "coords"
    /\ error = "none"
    /\ row \in PlateRows
    /\ col \in PlateCols
    /\ sur_coords = <<>>
    /\ IdleMain /\ IdleCtl /\ IdleBub /\ IdleSim /\ IdleNorm

\* sur_coords = get_surrounding_coords(row, col)
GetSurroundingCoords ==
    /\ pc = "coords"
    /\ sur_coords' = get_surrounding_coords(row, col)
    /\ pc' = "coords_done"
    /\ UNCHANGED <<error, row, col, mainVars, ctlVars, bubVars, simVars, normVars>>

CoordNext == GetSurroundingCoords

SpecCoords == CoordInit /\ [][CoordNext]_vars

abs(x) == IF x < 0 THEN -x ELSE x

\* C9: for row in 0..7 and column in 1..12, get_surrounding_coords returns,
\* without duplicates, exactly the cells within one row and one column of the
\* position that lie on the plate, the position included; (0,1) gives 4 cells
\* and (3,6) gives 9.
C9_NeighbourhoodClipped ==
    pc = "coords_done" =>
       /\ {sur_coords[i] : i \in 1..Len(sur_coords)} =
             {<<r, c>> \in PlateRows \X PlateCols : abs(r - row) <= 1 /\ abs(c - col) <= 1}
       /\ \A i, j \in 1..Len(sur_coords) : sur_coords[i] = sur_coords[j] => i = j
       /\ (row = 0 /\ col = 1) => Len(sur_coords) = 4
       /\ (row = 3 /\ col = 6) => Len(sur_coords) = 9

\* the bottom-right corner well has been resolved to its four cells
C9_Witness ==
    /\ pc = "coords_done" /\ row = 7 /\ col = 12
    /\ sur_coords = <<<<6, 11>>, <<6, 12>>, <<7, 11>>, <<7, 12>>>>

--------------------------------------------------------------------------
(* DataFrames built by merging.  main_df is unbound until the first sample *)
(* of a loop is met (the code's try / except NameError).                   *)

Unbound == [bound |-> FALSE, cols |-> <<>>, taxa |-> <<>>, rows |-> <<>>]

\* main_df = sample.otu_tab
as_df(tab) ==
    [bound |-> TRUE, cols |-> <<tab.colname>>, taxa |-> tab.taxa,
     rows |-> [i \in 1..Len(tab.vals) |-> <<tab.vals[i]>>]]

index_of(s, x) == CHOOSE j \in 1..Len(s) : s[j] = x

\* the positions 1..n, from which a boolean mask selects
positions(n) == [i \in 1..n |-> i]

\* pd.merge(main_df, interim_df, on="PrefTaxon"): the inner join
pd_merge(main, tab) ==
    LET idx == SelectSeq(positions(Len(main.taxa)),
                             LAMBDA i : \E j \in 1..Len(tab.taxa) : tab.taxa[j] = main.taxa[i])
    IN [bound |-> TRUE,
        cols |-> Append(main.cols, tab.colname),
        taxa |-> [k \in 1..Len(idx) |-> main.taxa[idx[k]]],
        rows |-> [k \in 1..Len(idx) |->
                    Append(main.rows[idx[k]], tab.vals[index_of(tab.taxa, main.taxa[idx[k]])])]]

\* try: main_df = pd.merge(main_df, interim_df) except NameError: main_df = otu_tab
merge_or_first(main, tab) == IF main.bound THEN pd_merge(main, tab) ELSE as_df(tab)

\* format_df: the rows whose counts are all zero go
format_df(main) ==
    LET idx == SelectSeq(positions(Len(main.taxa)),
                             LAMBDA i : \E c \in 1..Len(main.rows[i]) : main.rows[i][c] # 0)
    IN [main EXCEPT !.taxa = [k \in 1..Len(idx) |-> main.taxa[idx[k]]],
                    !.rows = [k \in 1..Len(idx) |-> main.rows[idx[k]]]]

mk_sheet(book, name, d) == [book |-> book, name |-> name, cols |-> d.cols, taxa |-> d.taxa]

--------------------------------------------------------------------------
(* import_metadata_ea and import_otu_tables_main. *)

RECURSIVE import_metadata_ea(_)
import_metadata_ea(rws) ==
    IF rws = <<>> THEN [samples |-> <<>>, exc |-> "none"]
    ELSE LET r == Head(rws)
             d == Diatom_Sample(r.sampleid, r.siteid, r.region, r.folder)
             rest == import_metadata_ea(Tail(rws))
         IN IF d.exc # "none" THEN [samples |-> <<>>, exc |-> d.exc]
            ELSE [samples |-> <<d.s>> \o rest.samples, exc |-> rest.exc]

\* the renaming of one column header (lines 565-577)
rename_header(h) ==
    LET dot == find(h, ".")
        p0 == IF dot = -1 THEN h ELSE SubSeq(h, 1, dot)
        p1 == IF dot = -1 THEN <<>> ELSE split_dot_0(SubSeq(h, dot + 2, Len(h)))
    IN IF Len(p0) = 0 THEN h                                \* IndexError: kept
       ELSE IF lower_char(p0[1]) \in {"b", "n", "p", "g", "t", "u"}
            THEN (IF dot = -1 THEN h ELSE p0 \o p1)          \* IndexError: kept
            ELSE p0

\* otus.rename(columns=new_headers)
rename_columns(file) ==
    [file EXCEPT !.cols = [k \in 1..Len(file.cols) |->
                             [file.cols[k] EXCEPT !.header = rename_header(@)]]]

column_tab(file, k) == mk_tab(file.cols[k].header, file.taxa, file.cols[k].vals)

\* the loop over headers and samples (lines 581-590); the folders do not change
import_matched(samples, file) ==
    [i \in 1..Len(samples) |->
        IF \E k \in 1..Len(file.cols) : file.cols[k].header = samples[i].folder
        THEN LET k == CHOOSE k \in 1..Len(file.cols) : file.cols[k].header = samples[i].folder
             IN IF samples[i].count > 3000 THEN samples[i]
                ELSE assign_results(samples[i], column_tab(file, k), file.name)
        ELSE samples[i]]

headers_added(samples, file) ==
    {file.cols[k].header : k \in {k \in 1..Len(file.cols) :
                                    \E i \in 1..Len(samples) : samples[i].folder = file.cols[k].header}}

\* the loop over the headers left (lines 591-601), from column k on
RECURSIVE import_unmatched(_, _, _, _)
import_unmatched(samples, file, k, added) ==
    IF k > Len(file.cols) THEN [samples |-> samples, exc |-> "none"]
    ELSE IF file.cols[k].header \in added THEN import_unmatched(samples, file, k + 1, added)
    ELSE LET s0 == new_sample(Str_Control, file.cols[k].header)
             s1 == assign_results(s0, column_tab(file, k), file.name)
             r == sort_control(s1)
         IN IF r.exc # "none" THEN [samples |-> samples, exc |-> r.exc]
            ELSE import_unmatched(
                    Append(samples, [r.s EXCEPT !.otu_tab.colname = r.s.sampleid]),
                    file, k + 1, added)

\* one pass of the loop over the files of import_otu_tables_main
import_otu_table(samples, file) ==
    import_unmatched(import_matched(samples, file), file, 1, headers_added(samples, file))

--------------------------------------------------------------------------
(* The exports. *)

keep_list ==
    {<<"A","n","g","l","i","a","n">>,
     <<"M","i","d","l","a","n","d","s">>,
     <<"S","o","u","t","h"," ","W","e","s","t">>,
     <<"S","o","u","t","h","e","r","n">>,
     <<"N","o","r","t","h"," ","W","e","s","t">>,
     <<"N","o","r","t","h"," ","E","a","s","t">>,
     <<"T","h","a","m","e","s">>,
     <<"U","n","k","n","o","w","n","s">>,
     <<"B","l","a","n","k","s">>,
     <<"P","o","s","i","t","i","v","e","s">>,
     <<"G","b","l","o","c","k","s">>,
     <<"N","T","C","s">>,
     <<"T","R">>,
     <<"A","b","e","r","d","e","e","n">>,
     <<"P","e","r","t","h">>,
     <<"E","u","r","o","c","e","n","t","r","l">>,
     <<"D","i","n","g","w","a","l","l">>,
     <<"D","u","m","f","r","i","e","s">>,
     <<"G","a","l","a","s","h","i","e","l","s">>,
     <<"B","o","w","l","b","l","a","n","k">>}

in_control_regions(region) == \E k \in 1..Len(control_regions) : control_regions[k] = region

RECURSIVE unique(_)
unique(s) ==
    IF s = <<>> THEN <<>>
    ELSE LET u == unique(SubSeq(s, 1, Len(s) - 1))
         IN IF \E k \in 1..Len(u) : u[k] = s[Len(s)] THEN u ELSE Append(u, s[Len(s)])

get_region_list(samples) ==
    SelectSeq(unique([i \in 1..Len(samples) |-> samples[i].region]),
              LAMBDA x : x # <<"n","a","n">>)

\* the loop of a control category or of a real region (lines 324-331, 339-347)
RECURSIVE region_loop(_, _, _, _)
region_loop(samples, i, region, main) ==
    IF i > Len(samples) THEN main
    ELSE region_loop(samples, i + 1, region,
                     IF samples[i].region = region /\ samples[i].count >= 3000
                     THEN merge_or_first(main, samples[i].otu_tab) ELSE main)

\* the loop over sample_og of the TR branch (lines 311-316)
RECURSIVE tr_originals(_, _, _, _)
tr_originals(samples, j, fn, main) ==
    IF j > Len(samples) THEN main
    ELSE tr_originals(samples, j + 1, fn,
                      IF /\ samples[j].folder = fn
                         /\ samples[j].region # Str_TR
                         /\ samples[j].count > 1
                      THEN pd_merge(main, samples[j].otu_tab) ELSE main)

min(x, y) == IF x < y THEN x ELSE y

\* the loop over sample_tr of the TR branch (lines 297-316); fn is
\* sample_original_fn, unbound until a folder with "3" or "4" third sets it
RECURSIVE tr_loop(_, _, _, _)
tr_loop(samples, i, fn, main) ==
    IF i > Len(samples) THEN [exc |-> "none", main |-> main]
    ELSE LET s == samples[i]
         IN IF s.region = Str_TR /\ s.count >= 3000
            THEN IF Len(s.folder) < 3 THEN [exc |-> "IndexError", main |-> main]
                 ELSE LET fn1 == IF s.folder[3] = "3"
                                 THEN [bound |-> TRUE, v |-> SubSeq(s.folder, 3, min(8, Len(s.folder)))]
                                 ELSE IF s.folder[3] = "4"
                                 THEN [bound |-> TRUE, v |-> SubSeq(s.folder, 3, min(9, Len(s.folder)))]
                                 ELSE fn
                          m1 == merge_or_first(main, s.otu_tab)
                      IN IF ~fn1.bound THEN [exc |-> "UnboundLocalError", main |-> m1]
                         ELSE tr_loop(samples, i + 1, fn1, tr_originals(samples, 1, fn1.v, m1))
            ELSE tr_loop(samples, i + 1, fn, main)

NoPassing == "had no passing samples"

\* filter_otus_by_region: the exception raised and the DataFrame merged
filter_otus_by_region(region, samples) ==
    IF region = no_value
    THEN [exc |-> "NameError", main |-> Unbound]          \* metadata_list is not defined
    ELSE IF region = Str_TR
    THEN tr_loop(samples, 1, [bound |-> FALSE, v |-> <<>>], Unbound)
    ELSE [exc |-> "none", main |-> region_loop(samples, 1, region, Unbound)]

\* the loop of community_analysis_export (lines 251-266): a control sample's
\* table has its count column renamed to the sample id
RECURSIVE community_loop(_, _, _)
community_loop(samples, i, main) ==
    IF i > Len(samples) THEN [samples |-> samples, main |-> main]
    ELSE LET s == samples[i]
         IN IF s.count >= 1 /\ s.region \in keep_list
            THEN IF in_control_regions(s.region)
                 THEN LET s1 == [s EXCEPT !.otu_tab.colname = s.sampleid]
                      IN community_loop([samples EXCEPT ![i] = s1], i + 1,
                                        merge_or_first(main, s1.otu_tab))
                 ELSE community_loop(samples, i + 1, merge_or_first(main, s.otu_tab))
            ELSE community_loop(samples, i + 1, main)

--------------------------------------------------------------------------
(* main, run without the similarity pass. *)

MaxMeta == 2       \* rows of the metadata sheet

Taxa == <<"EC", "IE">>

MetaRows ==
    {[sampleid |-> <<"5","5">>, siteid |-> <<"7">>,
      region |-> <<"a","n","g","l","i","a","n">>, folder |-> <<"1","0","1">>],
     [sampleid |-> <<>>, siteid |-> <<>>,
      region |-> <<"c","o","n","t","r","o","l">>, folder |-> <<"B","1">>],
     [sampleid |-> <<"5","6">>, siteid |-> <<"8",".","0">>,
      region |-> <<"n","a","n">>, folder |-> <<"1","0","2">>],
     [sampleid |-> <<"5","7">>, siteid |-> <<"9">>,
      region |-> <<"s","o","u","t","h"," ","W","E","S","T">>, folder |-> <<"3">>]}

mk_col(header, vals) == [header |-> header, vals |-> vals]

Files ==
    {[name |-> Run_1_tsv, taxa |-> Taxa,
      cols |-> <<mk_col(<<"1","0","1">>, <<3000, 0>>),
                 mk_col(<<"B","1",".","S","1">>, <<2000, 1500>>)>>],
     [name |-> Run_1_tsv, taxa |-> Taxa,
      cols |-> <<mk_col(<<"1","0","1">>, <<2999, 0>>),
                 mk_col(<<"3">>, <<3000, 2>>),
                 mk_col(<<"T","R","3",".","S","1">>, <<1500, 1500>>)>>],
     [name |-> Run_2_tsv, taxa |-> Taxa,
      cols |-> <<mk_col(<<"1","0","1">>, <<100, 0>>),
                 mk_col(<<"X","7">>, <<0, 0>>)>>],
     [name |-> Run_2_tsv, taxa |-> Taxa,
      cols |-> <<mk_col(<<"0","0","7">>, <<3000, 5>>),
                 mk_col(<<"T","R","1">>, <<3000, 0>>)>>],
     [name |-> Run_2_tsv, taxa |-> Taxa,
      cols |-> <<mk_col(<<"3">>, <<20, 0>>),
                 mk_col(<<"T","R","3",".","S","2">>, <<3000, 1>>)>>],
     [name |-> Extra_tsv, taxa |-> Taxa,
      cols |-> <<mk_col(<<"S","1">>, <<5, 5>>)>>]}

RECURSIVE SeqsUpTo(_, _)
SeqsUpTo(S, n) ==
    IF n = 0 THEN {<<>>}
    ELSE LET shorter == SeqsUpTo(S, n - 1)
         IN shorter \cup {Append(s, x) : s \in {u \in shorter : Len(u) = n - 1}, x \in S}

Init ==
    /\ pc = "metadata"
    /\ error = "none"
    /\ IdleMain /\ IdleCtl /\ IdleBub /\ IdleSim /\ IdleCoord /\ IdleNorm

\* samples_meta_list = import_metadata_ea(...)
ImportMetadata ==
    /\ pc = "metadata"
    /\ \E rws \in SeqsUpTo(MetaRows, MaxMeta) :
          LET r == import_metadata_ea(rws)
          IN /\ sample_list' = r.samples
             /\ error' = r.exc
             /\ pc' = IF r.exc = "none" THEN "import" ELSE "crashed"
    /\ UNCHANGED <<otus, files_done, region_list, region_idx, sheets, diag,
                   ctlVars, bubVars, simVars, coordVars, normVars>>

\* import_otu_tables_main: one file of the directory
ImportOtuFile ==
    /\ pc = "import"
    /\ Len(files_done) < MaxFiles
    /\ \E file \in Files :
          /\ \A k \in 1..Len(files_done) : files_done[k] # file.name
          /\ LET renamed == rename_columns(file)
                 r == import_otu_table(sample_list, renamed)
             IN /\ otus' = renamed
                /\ sample_list' = r.samples
                /\ error' = r.exc
                /\ pc' = IF r.exc = "none" THEN "import" ELSE "crashed"
          /\ files_done' = Append(files_done, file.name)
    /\ UNCHANGED <<region_list, region_idx, sheets, diag,
                   ctlVars, bubVars, simVars, coordVars, normVars>>

\* the directory holds no further file; save_sample_info skips the samples
\* whose region is "Control" and writes the sheet of the others
SaveSampleInfo ==
    /\ pc = "import"
    /\ pc' = "regions"
    /\ sheets' = Append(sheets,
                        [book |-> "output.xlsx", name |-> "Sample batch information",
                         cols |-> LET idx == SelectSeq(positions(Len(sample_list)),
                                                    LAMBDA i : sample_list[i].region # Str_Control)
                                  IN [k \in 1..Len(idx) |-> sample_list[idx[k]].folder],
                         taxa |-> <<>>])
    /\ UNCHANGED <<error, sample_list, otus, files_done, region_list, region_idx, diag,
                   ctlVars, bubVars, simVars, coordVars, normVars>>

\* region_list = get_region_list(samples_otus)
GetRegionList ==
    /\ pc = "regions"
    /\ region_list' = get_region_list(sample_list)
    /\ region_idx' = 0
    /\ pc' = "filter"
    /\ UNCHANGED <<error, sample_list, otus, files_done, sheets, diag,
                   ctlVars, bubVars, simVars, coordVars, normVars>>

\* filter_otus_by_region(region, samples_otus, writer, control_regions)
FilterOtusByRegion ==
    /\ pc = "filter"
    /\ region_idx < Len(region_list)
    /\ LET region == region_list[region_idx + 1]
           r == filter_otus_by_region(region, sample_list)
       IN /\ error' = r.exc
          /\ pc' = IF r.exc = "none" THEN "filter" ELSE "crashed"
          /\ sheets' = IF r.exc = "none" /\ r.main.bound
                       THEN Append(sheets, mk_sheet("output.xlsx", region, format_df(r.main)))
                       ELSE sheets
          /\ diag' = IF r.exc = "none" /\ ~r.main.bound
                     THEN Append(diag, [region |-> region, msg |-> NoPassing])
                     ELSE diag
    /\ region_idx' = region_idx + 1
    /\ UNCHANGED <<sample_list, otus, files_done, region_list,
                   ctlVars, bubVars, simVars, coordVars, normVars>>

\* community_analysis_export(samples_otus, ["all"], control_regions)
CommunityAnalysisExport ==
    /\ pc = "filter"
    /\ region_idx = Len(region_list)
    /\ LET r == community_loop(sample_list, 1, Unbound)
       IN /\ sample_list' = r.samples
          /\ error' = IF r.main.bound THEN "none" ELSE "UnboundLocalError"
          /\ pc' = IF r.main.bound THEN "finish" ELSE "crashed"
          /\ sheets' = IF r.main.bound
                       THEN Append(sheets, mk_sheet("otus_all.xlsx", "comunity_analysis",
                                                    format_df(r.main)))
                       ELSE sheets
    /\ UNCHANGED <<otus, files_done, region_list, region_idx, diag,
                   ctlVars, bubVars, simVars, coordVars, normVars>>

\* delete_file("inter.text"); writer.save()
Finish ==
    /\ pc = "finish"
    /\ pc' = "done"
    /\ UNCHANGED <<error, mainVars, ctlVars, bubVars, simVars, coordVars, normVars>>

Next ==
    \/ ImportMetadata
    \/ ImportOtuFile
    \/ SaveSampleInfo
    \/ GetRegionList
    \/ FilterOtusByRegion
    \/ CommunityAnalysisExport
    \/ Finish

Spec == Init /\ [][Next]_vars


Successful(s) == s.pass_fail = "Successful"

\* C1: after any sequence of assign_results calls, re-assignments from later
\* abundance files included, a sample's pass_fail is "Successful" exactly
\* when its count is at least 3000.
C1_PassFailMatchesCount ==
    \A i \in 1..Len(sample_list) :
        Successful(sample_list[i]) <=> sample_list[i].count >= 3000

\* C2: every sample created with region "Control" has been through
\* sort_control before get_region_list and the exports run: no sample with
\* region "Control" reaches a region-based export.
C2_NoControlRegionAtExport ==
    pc \in {"filter", "finish", "done"} =>
        /\ \A i \in 1..Len(sample_list) : sample_list[i].region # Str_Control
        /\ \A k \in 1..Len(region_list) : region_list[k] # Str_Control

\* C5: importing an abundance table appends exactly one sample per column
\* header that equals no registry folder, each with a control category as
\* region and the column's sum as count; a matching header appends nothing
\* and no existing sample is removed.
C5_UnmatchedColumnsBecomeControls ==
    [][files_done' # files_done =>
          LET old == Len(sample_list)
              unmatched == SelectSeq(positions(Len(otus'.cols)),
                              LAMBDA k : \A i \in 1..old :
                                            sample_list[i].folder # otus'.cols[k].header)
          IN /\ Len(sample_list') = old + Len(unmatched)
             /\ \A i \in 1..old : sample_list'[i].folder = sample_list[i].folder
             /\ \A k \in 1..Len(unmatched) :
                   /\ in_control_regions(sample_list'[old + k].region)
                   /\ sample_list'[old + k].count = seq_sum(otus'.cols[unmatched[k]].vals)]_vars

NoQualifyingInRegion(region) ==
    \A i \in 1..Len(sample_list) :
        ~(sample_list[i].region = region /\ sample_list[i].count >= 3000)

NoQualifyingForCommunity ==
    \A i \in 1..Len(sample_list) :
        ~(sample_list[i].count >= 1 /\ sample_list[i].region \in keep_list)

\* C10: merging an empty collection never raises: a region without a
\* qualifying sample, and a community export without one, end with nothing
\* written and a diagnostic, not with an exception.
C10_EmptyMergeNeverRaises ==
    [][/\ (/\ pc = "filter" /\ region_idx < Len(region_list)
           /\ region_idx' = region_idx + 1
           /\ NoQualifyingInRegion(region_list[region_idx + 1]))
          => (error' = "none" /\ sheets' = sheets /\ Len(diag') = Len(diag) + 1)
       /\ (/\ pc = "filter" /\ region_idx = Len(region_list) /\ pc' # pc
           /\ NoQualifyingForCommunity)
          => (error' = "none" /\ sheets' = sheets)]_vars

\* C11: whatever region get_region_list returned, filter_otus_by_region
\* returns normally: no exception leaves it, and main stays in its loop over
\* the regions, from which the remaining regions, the community table and
\* the workbook follow.
C11_RegionFailureConfined ==
    [][(pc = "filter" /\ region_idx < Len(region_list) /\ region_idx' = region_idx + 1)
          => (error' = "none" /\ pc' = "filter")]_vars

\* the sheets of the output workbook that hold the export of one region
RegionSheets ==
    {k \in 1..Len(sheets) : /\ sheets[k].book = "output.xlsx"
                            /\ sheets[k].name # "Sample batch information"}

\* C14: every sample column of a per-region sheet, of a real region, of a
\* control category or of the TR sheet with the originals merged next to
\* their replicates, is the column of a sample whose count is at least 3000
\* and whose pass_fail is "Successful".
C14_ExportedColumnsPassThreshold ==
    \A k \in RegionSheets : \A c \in 1..Len(sheets[k].cols) :
        \A i \in 1..Len(sample_list) :
            (sample_list[i].otu_tab.isdf /\ sample_list[i].otu_tab.colname = sheets[k].cols[c])
                => (sample_list[i].count >= 3000 /\ Successful(sample_list[i]))

--------------------------------------------------------------------------
(* main, run with --similarity: import_extraction_sheets and               *)
(* perform_similarity_checks on the registry the imports left.             *)

MaxSamples == 3    \* samples of the registry given to the similarity pass

\* str(int(cell)).upper().strip(), on ValueError str(cell).upper().strip()
samplesheet_id(cell) == strip(upper(IF int_ok(cell) THEN str_int(cell) ELSE cell))

assign_surrounding_samples(s, coords, r, c, sheet_name) ==
    [s EXCEPT !.sur_samples = IF coords # <<>> THEN coords ELSE @,
              !.plate_loc = IF r # 0 /\ c # 0 THEN <<r, c>> ELSE @,
              !.plate = IF sheet_name # "" THEN sheet_name ELSE @]

amend_sample_note(s, note) ==
    [s EXCEPT !.note = Append(@, note)]

\* the loop over the samples for one cell (lines 539-545)
found_in_cell(samples, sheet_name, cell) ==
    [i \in 1..Len(samples) |->
        IF samples[i].folder = samplesheet_id(cell.id)
        THEN IF samples[i].plate # NoPlate
             THEN amend_sample_note(samples[i], <<"Sample also found on", sheet_name>>)
             ELSE assign_surrounding_samples(samples[i],
                                             get_surrounding_coords(cell.row, cell.col),
                                             cell.row, cell.col, sheet_name)
        ELSE samples[i]]

RECURSIVE import_cells(_, _, _)
import_cells(samples, sheet_name, cells) ==
    IF cells = <<>> THEN samples
    ELSE import_cells(found_in_cell(samples, sheet_name, Head(cells)), sheet_name, Tail(cells))

\* import_extraction_sheets: every sheet, its cells in row-major order
RECURSIVE import_extraction_sheets(_, _)
import_extraction_sheets(samples, shts) ==
    IF shts = <<>> THEN samples
    ELSE import_extraction_sheets(import_cells(samples, Head(shts).name, Head(shts).cells),
                                  Tail(shts))

\* pd.merge(cent_df, sur_df, on="PrefTaxon") with PrefTaxon dropped
joined(cent, sur) == pd_merge(as_df(cent.otu_tab), sur.otu_tab).rows

\* the mutant of the comparison that lets an equal score replace the best
similarity_not_below(similarity, highest_sim) == ~float_gt(highest_sim, similarity)

\* similarity > highest_sim (line 463)
similarity_above(similarity, highest_sim) == float_gt(similarity, highest_sim)

\* the loop over sample_sur for one sample_cent (lines 446-474)
RECURSIVE sim_inner(_, _, _, _)
sim_inner(samples, i, j, acc) ==
    IF j > Len(samples) \/ acc.exc # "none" THEN acc
    ELSE LET cent == samples[i]
             sur == samples[j]
         IN IF j = i \/ ~Successful(sur) THEN sim_inner(samples, i, j + 1, acc)
            ELSE IF cent.plate = NoPlate \/ sur.plate = NoPlate    \* AttributeError, caught
                 THEN sim_inner(samples, i, j + 1, acc)
            ELSE IF cent.plate # sur.plate THEN sim_inner(samples, i, j + 1, acc)
            ELSE IF ~sur.otu_tab.isdf THEN sim_inner(samples, i, j + 1, acc)
            ELSE LET similarity == baroni_urbani_buser_coefficient(joined(cent, sur))
                     near == \E k \in 1..Len(cent.sur_samples) : cent.sur_samples[k] = sur.plate_loc
                 IN IF similarity.err
                    THEN [acc EXCEPT !.exc = "ZeroDivisionError"]
                    ELSE sim_inner(samples, i, j + 1,
                            IF near /\ similarity_above(similarity, acc.highest_sim)
                            THEN [acc EXCEPT !.sim_all = Append(@, similarity),
                                             !.highest_sim = similarity,
                                             !.most_sim_sample = sur.folder]
                            ELSE [acc EXCEPT !.sim_all = Append(@, similarity)])

assign_most_sim_sample(s, sim, smp) == [s EXCEPT !.sim = sim, !.sim_sample = smp]

\* the loop over sample_cent (lines 433-475)
RECURSIVE sim_outer(_, _, _)
sim_outer(samples, i, all) ==
    IF i > Len(samples) THEN [exc |-> "none", samples |-> samples, sim_all |-> all]
    ELSE IF ~Successful(samples[i]) THEN sim_outer(samples, i + 1, all)
    ELSE LET r == sim_inner(samples, i, 1,
                            [exc |-> "none", sim_all |-> all,
                             highest_sim |-> Float_0, most_sim_sample |-> <<>>])
         IN IF r.exc # "none"
            THEN [exc |-> r.exc, samples |-> samples, sim_all |-> r.sim_all]
            ELSE sim_outer([samples EXCEPT ![i] = assign_most_sim_sample(@, r.highest_sim,
                                                                        r.most_sim_sample)],
                           i + 1, r.sim_all)

\* perform_similarity_checks: the loops, then stat.mean and stat.stdev of
\* sim_all, which raise StatisticsError on fewer than 1 and 2 values
perform_similarity_checks(samples) ==
    LET r == sim_outer(samples, 1, <<>>)
    IN IF r.exc = "none" /\ Len(r.sim_all) < 2
       THEN [r EXCEPT !.exc = "StatisticsError"]
       ELSE r

SimTaxa == <<"EC", "IE", "NA", "PT">>

SimTables ==
    {[taxa |-> SimTaxa, vals |-> <<1000, 1000, 1000, 1000>>],
     [taxa |-> SimTaxa, vals |-> <<1500, 1500, 1, 0>>],
     [taxa |-> SimTaxa, vals |-> <<0, 0, 0, 3000>>],
     [taxa |-> SimTaxa, vals |-> <<10, 0, 0, 0>>],
     [taxa |-> <<"ZZ">>, vals |-> <<3000>>]}

DigitSeq == <<"0","1","2","3","4","5","6","7","8","9">>

\* the folder of the k-th sample: "101", "102", ...
SimFolder(k) == <<"1", "0", DigitSeq[k + 1]>>

\* where the k-th sample sits on the plate, by layout
Layouts ==
    <<<<<<1, 1>>, <<1, 2>>, <<2, 1>>, <<2, 2>>>>,
      <<<<0, 1>>, <<1, 1>>, <<1, 2>>, <<3, 6>>>>,
      <<<<3, 6>>, <<2, 1>>, <<1, 1>>, <<0, 1>>>>>>

\* the cells in the order the loops over row and col visit them
RowMajor(cells) ==
    LET Before(x, y) == x.row < y.row \/ (x.row = y.row /\ x.col < y.col)
    IN [k \in 1..Cardinality(cells) |->
           CHOOSE x \in cells : Cardinality({y \in cells : Before(y, x)}) = k - 1]

\* a workbook: the samples of `placed` on "Plate1" where the layout puts
\* them, and with `again` the first sample once more on "Plate2"
Workbook(layout, placed, again) ==
    <<[name |-> "Plate1",
       cells |-> RowMajor({[row |-> Layouts[layout][k][1], col |-> Layouts[layout][k][2],
                            id |-> SimFolder(k)] :
                              k \in {k \in placed : k <= Len(Layouts[layout])}})]>>
    \o (IF again THEN <<[name |-> "Plate2",
                         cells |-> <<[row |-> 2, col |-> 2, id |-> SimFolder(1)]>>]>>
        ELSE <<>>)

SimInit ==
    /\ pc = "sheets"
    /\ error = "none"
    /\ \E n \in 1..MaxSamples : \E tabs \in [1..n -> SimTables] :
          sample_list =
             [k \in 1..n |->
                 assign_results(
                    Diatom_Sample(<<>>, <<"7">>, <<"a","n","g","l","i","a","n">>, SimFolder(k)).s,
                    mk_tab(SimFolder(k), tabs[k].taxa, tabs[k].vals),
                    Run_1_tsv)]
    /\ otus = NoneTab /\ files_done = <<>>
    /\ region_list = <<>> /\ region_idx = 0 /\ sheets = <<>> /\ diag = <<>>
    /\ sim_all = <<>> /\ plates = <<>>
    /\ IdleCtl /\ IdleBub /\ IdleCoord /\ IdleNorm

\* import_extraction_sheets(options.input_dir, options.plate_info, samples_otus)
ImportExtractionSheets ==
    /\ pc = "sheets"
    /\ \E layout \in 1..Len(Layouts), placed \in SUBSET (1..Len(sample_list)), again \in BOOLEAN :
          /\ plates' = Workbook(layout, placed, again)
          /\ sample_list' = import_extraction_sheets(sample_list, plates')
    /\ pc' = "similarity"
    /\ UNCHANGED <<error, otus, files_done, region_list, region_idx, sheets, diag, sim_all,
                   ctlVars, bubVars, coordVars, normVars>>

\* perform_similarity_checks(samples_otus, writer)
PerformSimilarityChecks ==
    /\ pc = "similarity"
    /\ LET r == perform_similarity_checks(sample_list)
       IN /\ sample_list' = r.samples
          /\ sim_all' = r.sim_all
          /\ error' = r.exc
          /\ pc' = IF r.exc = "none" THEN "sim_done" ELSE "crashed"
          /\ sheets' = IF r.exc = "none"
                       THEN Append(sheets,
                                   [book |-> "output.xlsx", name |-> "BUB_coefficient",
                                    cols |-> [i \in 1..Len(r.samples) |-> r.samples[i].folder],
                                    taxa |-> <<>>])
                       ELSE sheets
    /\ UNCHANGED <<otus, files_done, region_list, region_idx, diag, plates,
                   ctlVars, bubVars, coordVars, normVars>>

SimNext == ImportExtractionSheets \/ PerformSimilarityChecks

SpecSim == SimInit /\ [][SimNext]_vars

\* the candidates of sample x: the other Successful samples of its plate whose
\* location is among x's surrounding coordinates and that hold a table
Candidates(x) ==
    {j \in 1..Len(sample_list) :
        /\ j # x
        /\ Successful(sample_list[j])
        /\ sample_list[x].plate # NoPlate
        /\ sample_list[j].plate = sample_list[x].plate
        /\ \E k \in 1..Len(sample_list[x].sur_samples) :
              sample_list[x].sur_samples[k] = sample_list[j].plate_loc
        /\ sample_list[j].otu_tab.isdf}

Score(x, j) == baroni_urbani_buser_coefficient(joined(sample_list[x], sample_list[j]))

\* the first candidate of x, in registry order, whose score no candidate exceeds
FirstBest(x) ==
    CHOOSE j \in Candidates(x) :
        /\ \A k \in Candidates(x) : ~float_gt(Score(x, k), Score(x, j))
        /\ \A k \in Candidates(x) : k < j => float_gt(Score(x, j), Score(x, k))

BestMatchTableWritten ==
    \E k \in 1..Len(sheets) : sheets[k].name = "BUB_coefficient"

\* C12: perform_similarity_checks completes and writes the best-match table
\* also when fewer than 2 pairwise coefficients were computed; the mean and
\* standard deviation are then an edge case, not an exception.
C12_FewCoefficientsStillCompletes ==
    (pc \in {"sim_done", "crashed"} /\ error # "ZeroDivisionError" /\ Len(sim_all) < 2)
        => (error = "none" /\ pc = "sim_done" /\ BestMatchTableWritten)

\* the cells of the workbook that hold the folder of sample i, in the order
\* the sheets and their cells are visited
RECURSIVE Occurrences(_, _)
Occurrences(i, shts) ==
    IF shts = <<>> THEN <<>>
    ELSE LET hits == SelectSeq(Head(shts).cells,
                               LAMBDA c : samplesheet_id(c.id) = sample_list[i].folder)
         IN [k \in 1..Len(hits) |->
                [sheet |-> Head(shts).name, row |-> hits[k].row, col |-> hits[k].col]]
            \o Occurrences(i, Tail(shts))

\* C15: after import_extraction_sheets every sample found in a cell of the
\* workbook has plate, plate_loc and sur_samples set together from the first
\* cell that holds it, for every row 0..7 and column 1..12; each later
\* occurrence adds one note and changes none of the three.
C15_PlateAttributesSetTogether ==
    pc = "similarity" =>
        \A i \in 1..Len(sample_list) :
            LET occ == Occurrences(i, plates)
            IN occ # <<>> =>
                  /\ sample_list[i].plate = occ[1].sheet
                  /\ sample_list[i].plate_loc = <<occ[1].row, occ[1].col>>
                  /\ sample_list[i].sur_samples = get_surrounding_coords(occ[1].row, occ[1].col)
                  /\ Len(sample_list[i].note) = Len(occ) - 1

--------------------------------------------------------------------------
(* The identifiers of Diatom_Sample.__init__: folder, sampleid and siteid  *)
(* built from a raw value, and built again from what the first             *)
(* construction made.                                                      *)

RawChars == {"0", "7", ".", " ", "a", "-"}

\* a raw cell: absent (<<>>) or a text of up to MaxLen characters
RawValues == SeqsUpTo(RawChars, MaxLen)

\* the three identifiers of a constructed sample
identifiers(s) == [folder |-> s.folder, sampleid |-> s.sampleid, siteid |-> s.siteid]

\* one identifier is given, the other two are absent
NormInit ==
    /\ pc = "raw"
    /\ error = "none"
    /\ \E field \in {"folder", "sampleid", "siteid"}, value \in RawValues :
          raw = [NoIdent EXCEPT ![field] = value]
    /\ ident = NoIdent /\ ident_again = NoIdent
    /\ IdleMain /\ IdleCtl /\ IdleBub /\ IdleSim /\ IdleCoord

\* Diatom_Sample(sampleid, siteid, ..., folder) on the raw values
Construct ==
    /\ pc = "raw"
    /\ LET d == Diatom_Sample(raw.sampleid, raw.siteid, <<>>, raw.folder)
       IN /\ error' = d.exc
          /\ pc' = IF d.exc = "none" THEN "constructed" ELSE "crashed"
          /\ ident' = IF d.exc = "none" THEN identifiers(d.s) ELSE ident
    /\ UNCHANGED <<raw, ident_again, mainVars, ctlVars, bubVars, simVars, coordVars>>

\* Diatom_Sample(sampleid, siteid, ..., folder) on the identifiers made
ConstructAgain ==
    /\ pc = "constructed"
    /\ LET d == Diatom_Sample(ident.sampleid, ident.siteid, <<>>, ident.folder)
       IN /\ error' = d.exc
          /\ pc' = IF d.exc = "none" THEN "constructed_again" ELSE "crashed"
          /\ ident_again' = IF d.exc = "none" THEN identifiers(d.s) ELSE ident_again
    /\ UNCHANGED <<raw, ident, mainVars, ctlVars, bubVars, simVars, coordVars>>

NormNext == Construct \/ ConstructAgain

SpecNorm == NormInit /\ [][NormNext]_vars

\* C13: the normalisation of folder, sampleid and siteid is total and
\* idempotent: construction succeeds on every raw value, and constructing
\* again from the identifiers it made succeeds and returns them unchanged.
C13_NormalisationTotalIdempotent ==
    /\ pc # "crashed"
    /\ pc = "constructed_again" => ident_again = ident

==========================================================================
